---- MODULE Spec2Model ----
(***************************************************************************)
(* Rule-based risk classification of financial transactions.               *)
(*                                                                         *)
(* src/src/02_clean_and_engineer.py : the enrichment pipeline (main)       *)
(* src/src/01_generate_data.py      : the shape of the generated inputs    *)
(* src/app/app.py                   : the dashboard's load and filters     *)
(*                                                                         *)
(* A CSV field is a record [kind, val]: kind "num" is well-formed numeric  *)
(* or calendar-day text whose value is val, kind "empty" is an empty       *)
(* field, kind "text" is text that parses neither as a number nor as a     *)
(* date.  A loaded cell is [kind, val] with kind "num", "nan" (NaN),       *)
(* "nat" (NaT) or "text" (an object-dtype string left as it was read).     *)
(* Dates are calendar days counted from an arbitrary origin, as            *)
(* 01_generate_data.py writes them (no time of day).  The pass-through     *)
(* columns txn_type, currency, paid_amount and customer_name are not       *)
(* represented: no step of main() reads them.                              *)
(***************************************************************************)
EXTENDS Integers, Sequences, FiniteSets, TLC

VARIABLES
    customers_csv,      \* data/customers.csv
    transactions_csv,   \* data/transactions.csv
    payments_csv,       \* data/payments.csv
    customers,          \* main(): customers frame
    transactions,       \* main(): transactions frame
    payments,           \* main(): payments frame
    df,                 \* main(): the working frame
    pc,                 \* main(): position of the run
    err,                \* the exception that ended the run, if any
    published,          \* data/analysis_table.csv as a reader finds it
    prior,              \* the table that was published when the run began
    amount,             \* assign_risk_level: argument
    delay_days,         \* assign_risk_level: argument
    risk,               \* assign_risk_level: returned label
    dash_pc,            \* app.py: position of the dashboard script
    dash_df,            \* app.py: df returned by load_data
    selected_risks,     \* app.py: Risk Level multiselect
    selected_sectors,   \* app.py: Sector multiselect
    start_date,         \* app.py: start of the date range in force
    end_date,           \* app.py: end of the date range in force
    filtered            \* app.py: the frame the dashboard renders

pipeVars == <<customers_csv, transactions_csv, payments_csv, customers,
              transactions, payments, df, pc, err, published, prior>>
pureVars == <<amount, delay_days, risk>>
dashVars == <<dash_pc, dash_df, selected_risks, selected_sectors,
              start_date, end_date, filtered>>
vars == <<pipeVars, pureVars, dashVars>>

(***************************************************************************)
(* Bounds of the model.                                                    *)
(***************************************************************************)
MaxTxn == 2
MaxPay == 2
MaxCust == 2

(***************************************************************************)
(* Cells.                                                                  *)
(***************************************************************************)
Num(n) == [kind |-> "num", val |-> n]
Empty == [kind |-> "empty", val |-> 0]
Text == [kind |-> "text", val |-> 0]
NaN == [kind |-> "nan", val |-> 0]
NaT == [kind |-> "nat", val |-> 0]
Raised == [kind |-> "raise", val |-> 0]
NoSector == "<NA>"

NoError == [type |-> "none", txn_ids |-> {}]
NoFile == [exists |-> FALSE, rows |-> <<>>]

SeqsUpTo(S, lo, hi) == UNION {[1..n -> S] : n \in lo..hi}

isna(x) == x.kind \in {"nan", "nat"}
notna(x) == ~isna(x)

(***************************************************************************)
(* Thresholds.                                                             *)
(***************************************************************************)
HIGH_AMOUNT_THRESHOLD == 100000
MEDIUM_AMOUNT_THRESHOLD == 50000
HIGH_DELAY_THRESHOLD == 30
MEDIUM_DELAY_THRESHOLD == 10

\* Python's >= on floats: false as soon as one side is NaN.
GE(x, n) == x.kind = "num" /\ x.val >= n

\* Python's > on floats (used by the boundary variant below).
GT(x, n) == x.kind = "num" /\ x.val > n

assign_risk_level_strict(a, d) ==
    IF GT(a, HIGH_AMOUNT_THRESHOLD) \/ GT(d, HIGH_DELAY_THRESHOLD) THEN "High"
    ELSE IF GT(a, MEDIUM_AMOUNT_THRESHOLD) \/ GT(d, MEDIUM_DELAY_THRESHOLD)
         THEN "Medium"
         ELSE "Low"

assign_risk_level(a, d) ==
    IF GE(a, HIGH_AMOUNT_THRESHOLD) \/ GE(d, HIGH_DELAY_THRESHOLD) THEN "High"
    ELSE IF GE(a, MEDIUM_AMOUNT_THRESHOLD) \/ GE(d, MEDIUM_DELAY_THRESHOLD)
         THEN "Medium"
         ELSE "Low"

(***************************************************************************)
(* load_raw_data.                                                          *)
(***************************************************************************)
\* pd.read_csv on one field: an empty field is NaN, anything else is kept.
read_csv_field(f) == IF f.kind = "empty" THEN NaN ELSE f

\* pd.to_datetime on one cell; coerce is errors="coerce".
to_datetime(x, coerce) ==
    IF x.kind = "num" THEN x
    ELSE IF x.kind \in {"nan", "nat"} THEN NaT
    ELSE IF coerce THEN NaT ELSE Raised

\* pd.read_csv on one text field: an empty field is missing.
read_csv_str(f) == IF f = "" THEN NoSector ELSE f

read_transactions(csv) ==
    [i \in 1..Len(csv) |->
        [txn_id      |-> csv[i].txn_id,
         customer_id |-> csv[i].customer_id,
         txn_date    |-> read_csv_field(csv[i].txn_date),
         amount      |-> read_csv_field(csv[i].amount),
         due_date    |-> read_csv_field(csv[i].due_date)]]

read_payments(csv) ==
    [i \in 1..Len(csv) |->
        [payment_id   |-> read_csv_field(csv[i].payment_id),
         txn_id       |-> csv[i].txn_id,
         payment_date |-> read_csv_field(csv[i].payment_date)]]

read_customers(csv) ==
    [i \in 1..Len(csv) |->
        [customer_id |-> csv[i].customer_id,
         sector      |-> read_csv_str(csv[i].sector),
         country     |-> read_csv_str(csv[i].country)]]

parse_transactions(t) ==
    [i \in 1..Len(t) |->
        [t[i] EXCEPT !.txn_date = to_datetime(t[i].txn_date, FALSE),
                     !.due_date = to_datetime(t[i].due_date, FALSE)]]

parse_payments(p) ==
    [i \in 1..Len(p) |->
        [p[i] EXCEPT !.payment_date = to_datetime(p[i].payment_date, TRUE)]]

to_datetime_raises(t) ==
    \E i \in 1..Len(t) : t[i].txn_date = Raised \/ t[i].due_date = Raised

(***************************************************************************)
(* The steps of main().                                                    *)
(***************************************************************************)
RECURSIVE Concat(_)
Concat(ss) == IF ss = <<>> THEN <<>> ELSE Head(ss) \o Concat(Tail(ss))

\* DataFrame.merge(right, on=key, how="left"): left order is kept, a left
\* row appears once per matching right row, or once with the right columns
\* missing when nothing matches.
merge_left(left, right, key, missing) ==
    Concat([i \in 1..Len(left) |->
        LET m == SelectSeq(right, LAMBDA r : r[key] = left[i][key])
        IN  IF m = <<>> THEN <<left[i] @@ missing>>
            ELSE [j \in 1..Len(m) |-> left[i] @@ m[j]]])

NoPayment == [payment_id |-> NaN, payment_date |-> NaT]
NoCustomer == [sector |-> NoSector, country |-> NoSector]

\* DataFrame.drop_duplicates(): the first of each set of equal rows is kept.
RECURSIVE drop_duplicates(_)
drop_duplicates(s) ==
    IF s = <<>> THEN <<>>
    ELSE LET n == Len(s)
             init == drop_duplicates(SubSeq(s, 1, n - 1))
         IN  IF \E i \in 1..(n - 1) : s[i] = s[n] THEN init
             ELSE Append(init, s[n])

\* (payment_date - due_date).dt.days on one row.
dt_days(p, d) == IF p.kind = "num" /\ d.kind = "num" THEN Num(p.val - d.val)
                 ELSE NaN

fillna(x, v) == IF isna(x) THEN v ELSE x

fillna_str(s, v) == IF s = NoSector THEN v ELSE s

derive_keep_nan(d) ==
    [i \in 1..Len(d) |->
        d[i] @@ [is_paid    |-> notna(d[i].payment_date),
                 delay_days |-> dt_days(d[i].payment_date, d[i].due_date)]]

derive_features(d) ==
    [i \in 1..Len(d) |->
        d[i] @@ [is_paid    |-> notna(d[i].payment_date),
                 delay_days |-> fillna(dt_days(d[i].payment_date,
                                               d[i].due_date), Num(0))]]

fill_categoricals_none(d) == d

fill_categoricals(d) ==
    [i \in 1..Len(d) |->
        [d[i] EXCEPT !.sector = fillna_str(d[i].sector, "Unknown"),
                     !.country = fillna_str(d[i].country, "Unknown")]]

\* float(r["amount"]) raises ValueError on a string that is not a number.
float_raises(d) == \E i \in 1..Len(d) : d[i].amount.kind = "text"

classify(d) ==
    [i \in 1..Len(d) |->
        d[i] @@ [risk_level |-> assign_risk_level(d[i].amount,
                                                  d[i].delay_days)]]

(***************************************************************************)
(* DataFrame.to_csv: one cell, one row.                                    *)
(***************************************************************************)
to_csv_field(x) == IF isna(x) THEN Empty ELSE x

to_csv_row(r) ==
    [txn_id       |-> r.txn_id,
     customer_id  |-> r.customer_id,
     txn_date     |-> to_csv_field(r.txn_date),
     amount       |-> to_csv_field(r.amount),
     due_date     |-> to_csv_field(r.due_date),
     payment_id   |-> to_csv_field(r.payment_id),
     payment_date |-> to_csv_field(r.payment_date),
     is_paid      |-> IF r.is_paid THEN "True" ELSE "False",
     delay_days   |-> to_csv_field(r.delay_days),
     sector       |-> IF r.sector = NoSector THEN "" ELSE r.sector,
     country      |-> IF r.country = NoSector THEN "" ELSE r.country,
     risk_level   |-> r.risk_level]

to_csv(d) == [i \in 1..Len(d) |-> to_csv_row(d[i])]

(***************************************************************************)
(* main() as one function of the three files: the frame written by step 6. *)
(***************************************************************************)
enrich(tcsv, pcsv, ccsv) ==
    LET t == parse_transactions(read_transactions(tcsv))
        p == parse_payments(read_payments(pcsv))
        c == read_customers(ccsv)
        merged == drop_duplicates(merge_left(t, p, "txn_id", NoPayment))
        joined == merge_left(derive_features(merged), c, "customer_id",
                             NoCustomer)
    IN  classify(fill_categoricals(joined))

(***************************************************************************)
(* Input files.  Each family varies the columns one group of properties    *)
(* depends on and holds the other columns at one well-formed value.        *)
(***************************************************************************)
TxnRows(ids, custs, tdates, amounts, ddates) ==
    [txn_id : ids, customer_id : custs, txn_date : tdates,
     amount : amounts, due_date : ddates]

\* payments.csv rows are numbered 1..n (payment_id = np.arange(1, n + 1))
PayFiles(ids, pdates, lo, hi) ==
    {[i \in 1..Len(q) |->
         [payment_id |-> Num(i), txn_id |-> q[i].txn_id,
          payment_date |-> q[i].payment_date]] :
     q \in SeqsUpTo([txn_id : ids, payment_date : pdates], lo, hi)}

CustRows(custs, sectors, countries) ==
    [customer_id : custs, sector : sectors, country : countries]

OneCustomer == <<[customer_id |-> 1, sector |-> "Retail", country |-> "PL"]>>

\* malformed and missing dates, early, on-time and late payments
DateInputs ==
    [t : SeqsUpTo(TxnRows({1}, {1}, {Num(1), Text}, {Num(1000)},
                          {Num(10), Empty, Text}), 1, MaxTxn),
     p : PayFiles({1}, {Num(5), Num(10), Num(15), Empty, Text}, 0, MaxPay),
     c : {OneCustomer}]

\* amounts around the thresholds, missing and non-numeric amounts, delays
\* around the thresholds
AmountInputs ==
    [t : SeqsUpTo(TxnRows({1}, {1}, {Num(1)},
                          {Num(1000), Num(50000), Num(120000), Empty, Text},
                          {Num(10)}), 1, MaxTxn),
     p : PayFiles({1}, {Num(15), Num(20), Num(40), Empty}, 0, MaxPay),
     c : {OneCustomer}]

\* repeated txn_id rows and several payment rows per txn_id
PaymentKeyInputs ==
    [t : SeqsUpTo(TxnRows({1, 2}, {1}, {Num(1)}, {Num(1000)}, {Num(10)}),
                  1, MaxTxn),
     p : PayFiles({1, 2}, {Num(15), Empty}, 0, MaxPay),
     c : {OneCustomer}]

\* unknown customers, customers without sector or country, repeated
\* customer_id rows
CustomerKeyInputs ==
    [t : SeqsUpTo(TxnRows({1, 2}, {1, 2}, {Num(1)}, {Num(1000)}, {Num(10)}),
                  1, MaxTxn),
     p : {<<>>},
     c : SeqsUpTo(CustRows({1, 2}, {"Retail", ""}, {"PL", ""}), 0, MaxCust)]

Inputs == DateInputs \cup AmountInputs \cup PaymentKeyInputs
          \cup CustomerKeyInputs

\* The table an earlier run published: main() on one paid transaction.
PrevTable ==
    [exists |-> TRUE,
     rows |-> to_csv(enrich(
        <<[txn_id |-> 7, customer_id |-> 1, txn_date |-> Num(1),
           amount |-> Num(120000), due_date |-> Num(10)]>>,
        <<[payment_id |-> Num(7), txn_id |-> 7, payment_date |-> Num(15)]>>,
        OneCustomer))]

PipeInit ==
    /\ \E in \in Inputs :
          /\ transactions_csv = in.t
          /\ payments_csv = in.p
          /\ customers_csv = in.c
    /\ published \in {NoFile, PrevTable}
    /\ prior = published
    /\ customers = <<>>
    /\ transactions = <<>>
    /\ payments = <<>>
    /\ df = <<>>
    /\ pc = "start"
    /\ err = NoError

PureIdle == amount = NaN /\ delay_days = NaN /\ risk = "none"

DashIdle ==
    /\ dash_pc = "off"
    /\ dash_df = <<>>
    /\ selected_risks = {}
    /\ selected_sectors = {}
    /\ start_date = NaT
    /\ end_date = NaT
    /\ filtered = <<>>

Init == PipeInit /\ PureIdle /\ DashIdle

(***************************************************************************)
(* main(), step by step.                                                   *)
(***************************************************************************)
files == <<customers_csv, transactions_csv, payments_csv>>

\* step 1: load_raw_data()
Load ==
    /\ pc = "start"
    /\ LET t == parse_transactions(read_transactions(transactions_csv))
       IN  IF to_datetime_raises(t)
           THEN /\ pc' = "failed"
                /\ err' = [type |-> "DateParseError", txn_ids |-> {}]
                /\ UNCHANGED <<customers, transactions, payments>>
           ELSE /\ pc' = "loaded"
                /\ customers' = read_customers(customers_csv)
                /\ transactions' = t
                /\ payments' = parse_payments(read_payments(payments_csv))
                /\ err' = err
    /\ UNCHANGED <<files, df, published, prior, pureVars, dashVars>>

\* step 2: transactions.merge(payments, on="txn_id", how="left")
MergePayments ==
    /\ pc = "loaded"
    /\ df' = merge_left(transactions, payments, "txn_id", NoPayment)
    /\ pc' = "merged"
    /\ UNCHANGED <<files, customers, transactions, payments, err, published,
                   prior, pureVars, dashVars>>

\* step 3: df.drop_duplicates()
DropDuplicates ==
    /\ pc = "merged"
    /\ df' = drop_duplicates(df)
    /\ pc' = "deduped"
    /\ UNCHANGED <<files, customers, transactions, payments, err, published,
                   prior, pureVars, dashVars>>

\* is_paid, delay_days and its fillna(0)
DeriveFeatures ==
    /\ pc = "deduped"
    /\ df' = derive_features(df)
    /\ pc' = "derived"
    /\ UNCHANGED <<files, customers, transactions, payments, err, published,
                   prior, pureVars, dashVars>>

\* step 4: df.merge(customers, on="customer_id", how="left") and the fillna
\* of sector and country
MergeCustomers ==
    /\ pc = "derived"
    /\ df' = fill_categoricals(merge_left(df, customers, "customer_id",
                                          NoCustomer))
    /\ pc' = "enriched"
    /\ UNCHANGED <<files, customers, transactions, payments, err, published,
                   prior, pureVars, dashVars>>

\* step 5: df.apply(assign_risk_level(float(amount), float(delay_days)))
ClassifyRisk ==
    /\ pc = "enriched"
    /\ IF float_raises(df)
       THEN /\ pc' = "failed"
            /\ err' = [type |-> "ValueError", txn_ids |-> {}]
            /\ df' = df
       ELSE /\ pc' = "classified"
            /\ df' = classify(df)
            /\ err' = err
    /\ UNCHANGED <<files, customers, transactions, payments, published,
                   prior, pureVars, dashVars>>

\* step 6: df.to_csv(OUTPUT_CSV) opens the published file for writing,
\* which truncates it
WriteOpen ==
    /\ pc = "classified"
    /\ published' = [exists |-> TRUE, rows |-> <<>>]
    /\ pc' = "writing"
    /\ UNCHANGED <<files, customers, transactions, payments, df, err, prior,
                   pureVars, dashVars>>

\* ... writes the rows in order
WriteRow ==
    /\ pc = "writing"
    /\ Len(published.rows) < Len(df)
    /\ published' = [published EXCEPT
                       !.rows = Append(@, to_csv_row(df[Len(@) + 1]))]
    /\ UNCHANGED <<files, customers, transactions, payments, df, pc, err,
                   prior, pureVars, dashVars>>

\* ... and closes the file
WriteClose ==
    /\ pc = "writing"
    /\ Len(published.rows) = Len(df)
    /\ pc' = "done"
    /\ UNCHANGED <<files, customers, transactions, payments, df, err,
                   published, prior, pureVars, dashVars>>

\* ... unless the operating system refuses a write (disk full, I/O error)
WriteFail ==
    /\ pc = "writing"
    /\ Len(published.rows) < Len(df)
    /\ pc' = "failed"
    /\ err' = [type |-> "OSError", txn_ids |-> {}]
    /\ UNCHANGED <<files, customers, transactions, payments, df, published,
                   prior, pureVars, dashVars>>

Next ==
    \/ Load
    \/ MergePayments
    \/ DropDuplicates
    \/ DeriveFeatures
    \/ MergeCustomers
    \/ ClassifyRisk
    \/ WriteOpen
    \/ WriteRow
    \/ WriteClose
    \/ WriteFail

Spec == Init /\ [][Next]_vars

(***************************************************************************)
(* assign_risk_level on its own: the arguments are drawn around the four   *)
(* thresholds; amount may be NaN (float of a missing amount), delay_days   *)
(* is always a number after fillna(0).                                     *)
(***************************************************************************)
AmountArgs == {Num(0), Num(1000), Num(49999), Num(50000), Num(99999),
               Num(100000), Num(120000), NaN}
DelayArgs == {Num(0 - 5), Num(0), Num(9), Num(10), Num(29), Num(30), Num(60)}

PipeIdle ==
    /\ transactions_csv = <<>>
    /\ payments_csv = <<>>
    /\ customers_csv = <<>>
    /\ published = NoFile
    /\ prior = NoFile
    /\ customers = <<>>
    /\ transactions = <<>>
    /\ payments = <<>>
    /\ df = <<>>
    /\ pc = "off"
    /\ err = NoError

InitPure ==
    /\ amount \in AmountArgs
    /\ delay_days \in DelayArgs
    /\ risk = "none"
    /\ PipeIdle
    /\ DashIdle

CallAssignRiskLevel ==
    /\ risk = "none"
    /\ risk' = assign_risk_level(amount, delay_days)
    /\ UNCHANGED <<amount, delay_days, pipeVars, dashVars>>

NextPure == CallAssignRiskLevel

SpecPure == InitPure /\ [][NextPure]_vars

(***************************************************************************)
(* Properties of assign_risk_level.                                        *)
(***************************************************************************)
IsAtLeast(x, n) == x.kind = "num" /\ ~(x.val < n)

\* C1: assign_risk_level returns High when amount >= 100000 or delay_days
\* >= 30, otherwise Medium when amount >= 50000 or delay_days >= 10,
\* otherwise Low; High wins over Medium and the thresholds are inclusive
\* (100000/0, 99999/30 -> High; 50000/0, 0/10 -> Medium; 49999/9 -> Low).
C1_ThresholdRule ==
    risk # "none" =>
        LET high == IsAtLeast(amount, 100000) \/ IsAtLeast(delay_days, 30)
            medium == IsAtLeast(amount, 50000) \/ IsAtLeast(delay_days, 10)
        IN  /\ high => risk = "High"
            /\ (~high /\ medium) => risk = "Medium"
            /\ (~high /\ ~medium) => risk = "Low"
            /\ (amount = Num(100000) /\ delay_days = Num(0)) => risk = "High"
            /\ (amount = Num(99999) /\ delay_days = Num(30)) => risk = "High"
            /\ (amount = Num(50000) /\ delay_days = Num(0)) => risk = "Medium"
            /\ (amount = Num(0) /\ delay_days = Num(10)) => risk = "Medium"
            /\ (amount = Num(49999) /\ delay_days = Num(9)) => risk = "Low"

\* an input on the High delay threshold that also meets the Medium test
C1_Witness ==
    risk = "High" /\ amount = Num(99999) /\ delay_days = Num(30)

(***************************************************************************)
(* Properties of the Analysis Table.  The table exists in df once step 5   *)
(* has run, and in the published file once step 6 has finished.            *)
(***************************************************************************)
Classified == pc \in {"classified", "writing", "done"}
Derived == pc \in {"derived", "enriched"} \/ Classified
Enriched == pc = "enriched" \/ Classified
Rows(d) == 1..Len(d)

\* C2: every row of the Analysis Table without a payment_date (no matching
\* payment, or a payment whose payment_date is missing or unparseable) has
\* is_paid = False and delay_days = 0, whatever its due_date.
C2_UnpaidDelayZero ==
    /\ Derived =>
          \A i \in Rows(df) :
              isna(df[i].payment_date) =>
                  df[i].is_paid = FALSE /\ df[i].delay_days = Num(0)
    /\ pc = "done" =>
          \A i \in Rows(published.rows) :
              published.rows[i].payment_date = Empty =>
                  /\ published.rows[i].is_paid = "False"
                  /\ published.rows[i].delay_days = Num(0)

\* a published table with a row whose payment had an unparseable date and a
\* row without any payment date, one of them with a missing due_date
C2_Witness ==
    /\ pc = "done"
    /\ \E i \in Rows(payments_csv) : payments_csv[i].payment_date = Text
    /\ \E i \in Rows(published.rows) :
          /\ published.rows[i].payment_date = Empty
          /\ published.rows[i].due_date = Empty
          /\ published.rows[i].is_paid = "False"

TxnPart(r) == [txn_id |-> r.txn_id, customer_id |-> r.customer_id,
               txn_date |-> r.txn_date, amount |-> r.amount,
               due_date |-> r.due_date]

\* C3: every input Transaction row that survives deduplication appears
\* exactly once in the Analysis Table, also when several payment rows or
\* several customer rows share its key.
C3_JoinCompleteness ==
    Classified =>
        \A k \in Rows(transactions) :
            Cardinality({i \in Rows(df) :
                            TxnPart(df[i]) = transactions[k]}) = 1

\* transactions.csv repeats rows, payments.csv has one row per transaction
\* row, numbered 1..n (01_generate_data.py, lines 53-82)
GeneratorShaped ==
    /\ Len(payments_csv) = Len(transactions_csv)
    /\ \A i \in Rows(payments_csv) :
          /\ payments_csv[i].payment_id = Num(i)
          /\ payments_csv[i].txn_id = transactions_csv[i].txn_id
    /\ \E i, j \in Rows(transactions_csv) :
          i # j /\ transactions_csv[i] = transactions_csv[j]

\* C4: after the deduplication step no two rows of the Analysis Table have
\* the same txn_id, for inputs shaped as the data generator shapes them.
C4_UniqueTxnId ==
    (GeneratorShaped /\ (pc = "deduped" \/ Derived)) =>
        \A i, j \in Rows(df) : df[i].txn_id = df[j].txn_id => i = j

BadAmounts(d) == {i \in Rows(d) : d[i].amount.kind # "num"}

\* C5: a row whose amount is absent or non-numeric never gets a risk tier;
\* the run fails with a ValidationError that names every offending txn_id.
C5_AmountRejected ==
    /\ Classified => BadAmounts(df) = {}
    /\ (pc = "failed" /\ BadAmounts(df) # {}) =>
          /\ err.type = "ValidationError"
          /\ err.txn_ids = {df[i].txn_id : i \in BadAmounts(df)}

\* C6: a malformed txn_date, due_date or payment_date becomes the missing
\* marker when the raw tables are loaded; loading never raises.
C6_DatesCoerced ==
    pc # "start" =>
        /\ err.type # "DateParseError"
        /\ Len(transactions) = Len(transactions_csv)
        /\ \A i \in Rows(transactions) :
              /\ transactions_csv[i].txn_date = Text =>
                    transactions[i].txn_date = NaT
              /\ transactions_csv[i].due_date = Text =>
                    transactions[i].due_date = NaT
        /\ \A i \in Rows(payments) :
              payments_csv[i].payment_date = Text =>
                  payments[i].payment_date = NaT

\* C7: the published table is at every moment the complete table of the
\* previous run or the complete table of this run, and a failed run leaves
\* the previous table in place.
C7_AtomicPublish ==
    /\ \/ published = prior
       \/ Classified /\ published = [exists |-> TRUE, rows |-> to_csv(df)]
    /\ pc = "failed" => published = prior

Fill(s) == IF s = "" THEN "Unknown" ELSE s

\* C8: sector and country are never absent in the Analysis Table: a row
\* whose customer_id matches no Customer row has "Unknown" for both, a row
\* whose Customer has no sector (country) has "Unknown" there, and every
\* other value is the Customer's.
C8_SectorCountryResolved ==
    /\ Enriched =>
          \A i \in Rows(df) :
              LET m == {k \in Rows(customers_csv) :
                           customers_csv[k].customer_id = df[i].customer_id}
              IN  /\ df[i].sector # NoSector /\ df[i].country # NoSector
                  /\ m = {} => df[i].sector = "Unknown"
                               /\ df[i].country = "Unknown"
                  /\ m # {} => \E k \in m :
                        /\ df[i].sector = Fill(customers_csv[k].sector)
                        /\ df[i].country = Fill(customers_csv[k].country)
    /\ pc = "done" =>
          \A i \in Rows(published.rows) :
              published.rows[i].sector # "" /\ published.rows[i].country # ""

\* a published table with a row of an unknown customer and a row of a
\* customer that has a country but no sector
C8_Witness ==
    /\ pc = "done"
    /\ \E i, j \in Rows(published.rows) :
          /\ \A k \in Rows(customers_csv) :
                customers_csv[k].customer_id # published.rows[i].customer_id
          /\ published.rows[i].sector = "Unknown"
          /\ published.rows[i].country = "Unknown"
          /\ published.rows[j].sector = "Unknown"
          /\ published.rows[j].country = "PL"

\* C9: every row with is_paid = True has delay_days = payment_date minus
\* due_date in whole days; delay_days is 0 only for unpaid rows and for rows
\* paid exactly on the due date.
C9_DelayIsDifference ==
    Derived =>
        \A i \in Rows(df) :
            /\ df[i].is_paid =>
                  /\ df[i].due_date.kind = "num"
                  /\ df[i].delay_days =
                        Num(df[i].payment_date.val - df[i].due_date.val)
            /\ df[i].delay_days = Num(0) =>
                  \/ ~df[i].is_paid
                  \/ df[i].payment_date = df[i].due_date

(***************************************************************************)
(* The dashboard (app.py, lines 22-82).  Streamlit runs the script from    *)
(* the top at every interaction; load_data is cached.  The tables are      *)
(* those main() publishes from files in which some transaction has a       *)
(* txn_date: with no date at all min_date is NaT and what st.date_input    *)
(* does with it is decided by Streamlit, not by this repository.           *)
(***************************************************************************)
load_row(r) ==
    [r EXCEPT !.txn_date = to_datetime(read_csv_field(r.txn_date), TRUE),
              !.due_date = to_datetime(read_csv_field(r.due_date), TRUE),
              !.payment_date = to_datetime(read_csv_field(r.payment_date),
                                           TRUE),
              !.amount = read_csv_field(r.amount),
              !.payment_id = read_csv_field(r.payment_id),
              !.delay_days = read_csv_field(r.delay_days),
              !.is_paid = (r.is_paid = "True"),
              !.sector = read_csv_str(r.sector),
              !.country = read_csv_str(r.country)]

load_data(file) == [i \in 1..Len(file.rows) |-> load_row(file.rows[i])]

risk_options == {"Low", "Medium", "High"}

sector_options(d) == {d[i].sector : i \in Rows(d)} \ {NoSector}

TxnDays(d) == {d[i].txn_date.val : i \in {k \in Rows(d) : notna(d[k].txn_date)}}

min_date(d) == CHOOSE x \in TxnDays(d) : \A y \in TxnDays(d) : x <= y
max_date(d) == CHOOSE x \in TxnDays(d) : \A y \in TxnDays(d) : y <= x

\* what st.date_input can return: a pair of days, or one day while the user
\* is still picking the second, each within [min_date, max_date]
DateRanges(d) ==
    UNION {[1..n -> min_date(d)..max_date(d)] : n \in 1..2}

range_start(d, r) == IF Len(r) = 2 THEN r[1] ELSE min_date(d)
range_end(d, r) == IF Len(r) = 2 THEN r[2] ELSE max_date(d)

apply_filters_open_end(d, risks, sectors, s, e) ==
    SelectSeq(d, LAMBDA r : /\ r.risk_level \in risks
                            /\ r.sector \in sectors
                            /\ r.txn_date.kind = "num"
                            /\ r.txn_date.val >= s
                            /\ r.txn_date.val < e)

apply_filters(d, risks, sectors, s, e) ==
    SelectSeq(d, LAMBDA r : /\ r.risk_level \in risks
                            /\ r.sector \in sectors
                            /\ r.txn_date.kind = "num"
                            /\ r.txn_date.val >= s
                            /\ r.txn_date.val <= e)

DashInputs ==
    {in \in [t : SeqsUpTo(TxnRows({1}, {1, 2}, {Num(1), Num(2), Empty},
                                  {Num(1000), Num(120000)}, {Num(10)}),
                          1, MaxTxn),
             p : {<<>>},
             c : {OneCustomer}] :
        \E i \in Rows(in.t) : in.t[i].txn_date # Empty}

InitDash ==
    /\ \E in \in DashInputs :
          /\ transactions_csv = in.t
          /\ payments_csv = in.p
          /\ customers_csv = in.c
          /\ transactions = parse_transactions(read_transactions(in.t))
          /\ payments = parse_payments(read_payments(in.p))
          /\ customers = read_customers(in.c)
          /\ df = enrich(in.t, in.p, in.c)
          /\ published = [exists |-> TRUE,
                          rows |-> to_csv(enrich(in.t, in.p, in.c))]
    /\ prior = NoFile
    /\ pc = "done"
    /\ err = NoError
    /\ PureIdle
    /\ DashIdle

\* first run: load_data(DATA_PATH)
DashLoad ==
    /\ dash_pc = "off"
    /\ published.exists
    /\ dash_df' = load_data(published)
    /\ dash_pc' = "ready"
    /\ UNCHANGED <<selected_risks, selected_sectors, start_date, end_date,
                   filtered, pipeVars, pureVars>>

Selections(d) ==
    [risks : SUBSET risk_options, sectors : SUBSET sector_options(d),
     range : DateRanges(d)]

\* lines 64-67: an inverted range is reported in the sidebar, st.stop()
DashStopInverted ==
    /\ dash_pc = "ready"
    /\ \E w \in Selections(dash_df) :
          /\ range_start(dash_df, w.range) > range_end(dash_df, w.range)
          /\ selected_risks' = w.risks
          /\ selected_sectors' = w.sectors
          /\ start_date' = Num(range_start(dash_df, w.range))
          /\ end_date' = Num(range_end(dash_df, w.range))
    /\ filtered' = <<>>
    /\ dash_pc' = "range_error"
    /\ UNCHANGED <<dash_df, pipeVars, pureVars>>

\* lines 71-82: nothing matches, st.warning and st.stop()
DashStopEmpty ==
    /\ dash_pc = "ready"
    /\ \E w \in Selections(dash_df) :
          LET s == range_start(dash_df, w.range)
              e == range_end(dash_df, w.range)
          IN  /\ ~(s > e)
              /\ apply_filters(dash_df, w.risks, w.sectors, s, e) = <<>>
              /\ selected_risks' = w.risks
              /\ selected_sectors' = w.sectors
              /\ start_date' = Num(s)
              /\ end_date' = Num(e)
    /\ filtered' = <<>>
    /\ dash_pc' = "no_data"
    /\ UNCHANGED <<dash_df, pipeVars, pureVars>>

\* lines 71-77 and 84 onwards: the filtered frame is rendered
DashRender ==
    /\ dash_pc = "ready"
    /\ \E w \in Selections(dash_df) :
          LET s == range_start(dash_df, w.range)
              e == range_end(dash_df, w.range)
              f == apply_filters(dash_df, w.risks, w.sectors, s, e)
          IN  /\ ~(s > e)
              /\ f # <<>>
              /\ selected_risks' = w.risks
              /\ selected_sectors' = w.sectors
              /\ start_date' = Num(s)
              /\ end_date' = Num(e)
              /\ filtered' = f
    /\ dash_pc' = "rendered"
    /\ UNCHANGED <<dash_df, pipeVars, pureVars>>

\* the user touches a widget: the script runs again on the cached frame
DashRerun ==
    /\ dash_pc \in {"range_error", "no_data", "rendered"}
    /\ dash_pc' = "ready"
    /\ selected_risks' = {}
    /\ selected_sectors' = {}
    /\ start_date' = NaT
    /\ end_date' = NaT
    /\ filtered' = <<>>
    /\ UNCHANGED <<dash_df, pipeVars, pureVars>>

NextDash ==
    \/ DashLoad
    \/ DashStopInverted
    \/ DashStopEmpty
    \/ DashRender
    \/ DashRerun

SpecDash == InitDash /\ [][NextDash]_vars

RECURSIVE RowsAt(_, _, _)
RowsAt(d, keep, n) ==
    IF n = 0 THEN <<>>
    ELSE IF n \in keep THEN Append(RowsAt(d, keep, n - 1), d[n])
         ELSE RowsAt(d, keep, n - 1)

C11_UnpaidByAmountAlone ==
    Classified =>
        \A i \in Rows(df) :
            ~df[i].is_paid =>
                LET a == df[i].amount
                    known == a.kind = "num"
                IN  /\ df[i].risk_level = "High" <=>
                          (known /\ a.val >= 100000)
                    /\ df[i].risk_level = "Medium" <=>
                          (known /\ a.val >= 50000 /\ a.val < 100000)
                    /\ df[i].risk_level = "Low" <=>
                          (known /\ a.val < 50000)
                    /\ \A j \in Rows(df) :
                          (~df[j].is_paid /\ df[j].amount = a) =>
                              df[j].risk_level = df[i].risk_level

====
